---- MODULE Spec2Model ----
(***************************************************************************)
(* Model of the invoice-ingestion core of openai-agents-demo:              *)
(*   scripts/e2e_from_gmail_latest.py  choose_invoice_attachment           *)
(*   src/gmail_invoices.py             list_invoice_attachments,           *)
(*                                     download_attachment,                *)
(*                                     upload_pdf_to_planner               *)
(* Each component has its own specification (SpecSelect, SpecList,         *)
(* SpecUpload, SpecDownload) over the shared variables; the variables of   *)
(* the other components stay at their idle values.                         *)
(***************************************************************************)
EXTENDS Integers, Sequences, FiniteSets, TLC

VARIABLES
    sel_atts,      \* choose_invoice_attachment: the argument atts
    sel_result,    \* choose_invoice_attachment: Pending or the returned value
    list_env,      \* list_invoice_attachments: os.getenv("GMAIL_AUTHORIZATION")
    list_msgs,     \* the listing the email collaborator answered with
    list_calls,    \* number of calls made to the email collaborator
    list_result,   \* Pending, Return(refs) or Raise(exception)
    aug_query,     \* _append_lookback_to_query: the argument query
    aug_days,      \* its argument lookback_days
    aug_out,       \* what it returned, and what it returned when fed its own result
    up_pc,         \* upload_pdf_to_planner: the step the call is at
    up_args,       \* its arguments pdf_bytes and source_message_id
    up_env,        \* PLANNER_API_BASE and PLANNER_API_KEY
    up_posts,      \* the requests handed to requests.post, in order
    up_resp,       \* the response requests.post returned, once there is one
    up_result,     \* Pending, Return(report) or Raise(exception)
    dl_pc,         \* download_attachment: the step each call is at
    dl_ref,        \* the argument ref of each call
    dl_path,       \* the path the collaborator returned to each call
    dl_read,       \* what the read step of each call ended with
    dl_result,     \* Pending, Return(bytes) or Raise(exception), per call
    dl_invoked,    \* the calls made to gmail_download_attachment, in order
    dl_removed,    \* the calls of os.remove, in order: who, which path, did it succeed
    dl_fs          \* the local files: path -> contents

sel_vars  == <<sel_atts, sel_result>>
list_vars == <<list_env, list_msgs, list_calls, list_result>>
up_vars   == <<up_pc, up_args, up_env, up_posts, up_resp, up_result>>
aug_vars  == <<aug_query, aug_days, aug_out>>
dl_vars   == <<dl_pc, dl_ref, dl_path, dl_read, dl_result, dl_invoked, dl_removed, dl_fs>>
vars == <<sel_vars, list_vars, aug_vars, up_vars, dl_vars>>

(***************************************************************************)
(* Text.  A filename is a sequence of one-character strings, so that the   *)
(* regular expressions are evaluated character by character.               *)
(***************************************************************************)
LowerChars == <<"a","b","c","d","e","f","g","h","i","j","k","l","m",
                "n","o","p","q","r","s","t","u","v","w","x","y","z">>
UpperChars == <<"A","B","C","D","E","F","G","H","I","J","K","L","M",
                "N","O","P","Q","R","S","T","U","V","W","X","Y","Z">>
DigitChars == <<"0","1","2","3","4","5","6","7","8","9">>

Range(f) == {f[i] : i \in DOMAIN f}

\* re.I: characters are compared after case folding (ASCII)
Lower(c) ==
    IF c \in Range(UpperChars)
    THEN LowerChars[CHOOSE i \in DOMAIN UpperChars : UpperChars[i] = c]
    ELSE c

\* \w of the re module (ASCII part): letters, digits and the underscore
IsWordChar(c) ==
    c \in Range(LowerChars) \cup Range(UpperChars) \cup Range(DigitChars) \cup {"_"}

\* \s of the re module (ASCII part)
IsSpaceChar(c) == c \in {" ", "\t", "\n", "\r", "\f"}

\* the literal lit (lower case) occurs in s at position i, ignoring case
LitAt(s, i, lit) ==
    /\ i >= 1
    /\ i + Len(lit) - 1 <= Len(s)
    /\ \A k \in 1..Len(lit) : Lower(s[i + k - 1]) = lit[k]

\* \b at the gap before position i of s (i in 1..Len(s)+1)
WordBoundary(s, i) ==
    LET before == i > 1 /\ i - 1 <= Len(s) /\ IsWordChar(s[i - 1])
        after  == i >= 1 /\ i <= Len(s) /\ IsWordChar(s[i])
    IN  before # after

\* lit1 \s* lit2 matched from position i on
LitSpacesLitAt(s, i, lit1, lit2) ==
    /\ LitAt(s, i, lit1)
    /\ \E n \in 0..Len(s) :
          /\ \A k \in 0..(n - 1) :
                /\ i + Len(lit1) + k <= Len(s)
                /\ IsSpaceChar(s[i + Len(lit1) + k])
          /\ LitAt(s, i + Len(lit1) + n, lit2)

\* \b lit \b matched from position i on
WordAt(s, i, lit) ==
    /\ WordBoundary(s, i)
    /\ LitAt(s, i, lit)
    /\ WordBoundary(s, i + Len(lit))

L_commercial == <<"c","o","m","m","e","r","c","i","a","l">>
L_invoice    == <<"i","n","v","o","i","c","e">>
L_proforma   == <<"p","r","o","f","o","r","m","a">>
L_pi         == <<"p","i">>

NumPatterns == 4

\* patterns[p].search(s), p the 1-based index in the list `patterns`
PatSearch(p, s) ==
    CASE p = 1 -> \E i \in 1..Len(s) : LitSpacesLitAt(s, i, L_commercial, L_invoice)
      [] p = 2 -> \E i \in 1..Len(s) : WordAt(s, i, L_invoice)
      [] p = 3 -> \E i \in 1..Len(s) :
                     \/ LitSpacesLitAt(s, i, L_proforma, L_invoice)
                     \/ WordAt(s, i, L_proforma)
      [] p = 4 -> \/ LitAt(s, 1, L_pi) /\ WordBoundary(s, 1 + Len(L_pi))
                  \/ \E i \in 1..Len(s) : WordAt(s, i, L_pi)
      [] OTHER -> FALSE

(***************************************************************************)
(* Python values held by the loosely typed records: d.get(key) is None for *)
(* a missing key and for an explicit null alike.  Strings are sequences of *)
(* characters.                                                             *)
(***************************************************************************)
Absent == [t |-> "none"]
Str(s) == [t |-> "str", v |-> s]
PyInt(n) == [t |-> "int", v |-> n]

List(x) == [t |-> "list", v |-> x]

\* Python truthiness: None, "", 0 and [] are falsy
Truthy(x) ==
    CASE x.t = "none" -> FALSE
      [] x.t = "str"  -> x.v # <<>>
      [] x.t = "int"  -> x.v # 0
      [] x.t = "list" -> x.v # <<>>
      [] OTHER        -> TRUE

\* fn = a.get("filename") or a.get("title") or ""
EffectiveName(a) ==
    IF Truthy(a.filename) THEN a.filename.v
    ELSE IF Truthy(a.title) THEN a.title.v
    ELSE <<>>

Pending == [kind |-> "pending"]
Return(x) == [kind |-> "return", value |-> x]
Raise(e) == [kind |-> "raise", exc |-> e]
NoSelection == [kind |-> "None"]
Selected(i, a) == [kind |-> "tuple", pos |-> i, att |-> a]

\* a plausible slip: the scan keeps the last match of the pattern, not the first
RECURSIVE ScanAttsLast(_, _, _)
ScanAttsLast(atts, p, i) ==
    IF i > Len(atts) THEN NoSelection
    ELSE LET later == ScanAttsLast(atts, p, i + 1)
         IN  IF later # NoSelection THEN later
             ELSE IF PatSearch(p, EffectiveName(atts[i])) THEN Selected(i, atts[i])
             ELSE NoSelection

\* the inner loop: for i, a in enumerate(atts, start=1), from position i on
RECURSIVE ScanAtts(_, _, _)
ScanAtts(atts, p, i) ==
    IF i > Len(atts) THEN NoSelection
    ELSE IF PatSearch(p, EffectiveName(atts[i])) THEN Selected(i, atts[i])
    ELSE ScanAtts(atts, p, i + 1)

\* a plausible slip: "invoice" listed before "commercial invoice"
PatternOrderSwapped == <<2, 1, 3, 4>>

\* the order of the list `patterns`
PatternOrder == <<1, 2, 3, 4>>

\* a plausible slip: the fallback takes the last candidate
FallbackLast(atts) ==
    IF atts # <<>> THEN Selected(Len(atts), atts[Len(atts)]) ELSE NoSelection

\* if atts: return (1, atts[0]) ; return None
Fallback(atts) ==
    IF atts # <<>> THEN Selected(1, atts[1]) ELSE NoSelection

\* the outer loop: for pat in patterns, from the k-th pattern on, then the fallback
RECURSIVE ScanPatterns(_, _)
ScanPatterns(atts, k) ==
    IF k > Len(PatternOrder)
    THEN Fallback(atts)
    ELSE LET hit == ScanAtts(atts, PatternOrder[k], 1)
         IN  IF hit # NoSelection THEN hit ELSE ScanPatterns(atts, k + 1)

choose_invoice_attachment(atts) == ScanPatterns(atts, 1)

(***************************************************************************)
(* Inputs of the selector                                                  *)
(***************************************************************************)
MaxAtts == 2

SP  == <<" ">>
TAB == <<"\t">>
PDF == <<".","p","d","f">>

U_commercial == <<"C","O","M","M","E","R","C","I","A","L">>
U_invoice    == <<"I","N","V","O","I","C","E">>
N_scan       == <<"s","c","a","n">>
N_logo       == <<"l","o","g","o">>

Cores ==
    { L_commercial \o L_invoice,
      L_commercial \o SP \o L_invoice,
      U_commercial \o TAB \o SP \o <<"I","n","v","o","i","c","e">>,
      L_commercial \o <<"_">> \o L_invoice,
      L_commercial \o <<"-">> \o L_invoice,
      L_invoice,
      U_invoice,
      L_proforma,
      L_proforma \o SP \o L_invoice,
      L_pi,
      <<"P","I">>,
      N_scan }

FileNames ==
    Cores
    \cup { c \o PDF : c \in {L_commercial \o SP \o L_invoice, L_invoice, L_pi, N_scan} }
    \cup { <<"x">> \o c : c \in {L_commercial \o L_invoice, L_invoice, L_proforma, L_pi} }
    \cup { c \o <<"s">> : c \in {L_invoice, L_proforma, L_pi} }
    \cup { <<"a", " ">> \o c \o <<"_", "1">> : c \in {L_invoice, L_pi} }

TitleNames == { L_commercial \o SP \o L_invoice, L_invoice \o PDF, N_logo }

Candidates ==
    { [filename |-> Str(n), title |-> Absent] : n \in FileNames }
    \cup { [filename |-> f, title |-> t] :
              f \in {Absent, Str(<<>>)},
              t \in {Absent} \cup { Str(n) : n \in TitleNames } }
    \cup { [filename |-> Str(N_logo \o PDF), title |-> Str(L_commercial \o SP \o L_invoice)] }

\* the candidate sequences of at most n elements
CandidateSeqs(n) == UNION { [1..k -> Candidates] : k \in 0..n }

\* the values a component's variables keep while another component runs
IdleSelect == sel_atts = <<>> /\ sel_result = Pending
IdleList   == list_env = Absent /\ list_msgs = <<>> /\ list_calls = 0 /\ list_result = Pending
IdleAugment == aug_query = Absent /\ aug_days = Absent /\ aug_out = <<>>

IdleUpload ==
    /\ up_pc = "idle"
    /\ up_args = [pdf_bytes |-> Absent, source_message_id |-> Absent]
    /\ up_env = [base |-> Absent, key |-> Absent]
    /\ up_posts = <<>>
    /\ up_resp = Absent
    /\ up_result = Pending

\* the calls of download_attachment that may be in flight at once
NumCalls == 2
Calls == 1..NumCalls

IdleDownload ==
    /\ dl_pc = [c \in Calls |-> "idle"]
    /\ dl_ref = [c \in Calls |-> Absent]
    /\ dl_path = [c \in Calls |-> Absent]
    /\ dl_read = [c \in Calls |-> Pending]
    /\ dl_result = [c \in Calls |-> Pending]
    /\ dl_invoked = <<>>
    /\ dl_removed = <<>>
    /\ dl_fs = <<>>

InitSelect ==
    /\ sel_atts \in CandidateSeqs(MaxAtts)
    /\ sel_result = Pending
    /\ IdleList
    /\ IdleUpload
    /\ IdleDownload
    /\ IdleAugment

Choose ==
    /\ sel_result = Pending
    /\ sel_result' = choose_invoice_attachment(sel_atts)
    /\ UNCHANGED <<aug_vars, sel_atts, list_vars, up_vars, dl_vars>>

NextSelect == Choose

SpecSelect == InitSelect /\ [][NextSelect]_vars

(***************************************************************************)
(* src/gmail_invoices.py: conversions                                      *)
(***************************************************************************)
DigitValue(c) == (CHOOSE i \in DOMAIN DigitChars : DigitChars[i] = c) - 1

RECURSIVE StripLeft(_)
StripLeft(s) == IF s # <<>> /\ IsSpaceChar(Head(s)) THEN StripLeft(Tail(s)) ELSE s

RECURSIVE StripRight(_)
StripRight(s) ==
    IF s # <<>> /\ IsSpaceChar(s[Len(s)]) THEN StripRight(SubSeq(s, 1, Len(s) - 1)) ELSE s

RECURSIVE DropZeros(_)
DropZeros(s) == IF Len(s) > 1 /\ Head(s) = "0" THEN DropZeros(Tail(s)) ELSE s

\* the integer literal int(str) accepts: surrounding whitespace, an optional
\* sign, then decimal digits.  ok = FALSE stands for ValueError.
ParseIntLiteral(s) ==
    LET body   == StripRight(StripLeft(s))
        signed == body # <<>> /\ Head(body) \in {"+", "-"}
        digits == IF signed THEN Tail(body) ELSE body
    IN  IF digits # <<>> /\ \A i \in DOMAIN digits : digits[i] \in Range(DigitChars)
        THEN [ok |-> TRUE, neg |-> (signed /\ Head(body) = "-"), digits |-> DropZeros(digits)]
        ELSE [ok |-> FALSE]

RECURSIVE DigitsValue(_)
DigitsValue(digits) ==
    IF digits = <<>> THEN 0
    ELSE 10 * DigitsValue(SubSeq(digits, 1, Len(digits) - 1)) + DigitValue(digits[Len(digits)])

\* int(x): Return(n), or Raise for a value int() rejects
PyIntOf(x) ==
    CASE x.t = "int"  -> Return(x.v)
      [] x.t = "str"  ->
            LET lit == ParseIntLiteral(x.v)
            IN  IF lit.ok
                THEN Return(IF lit.neg THEN 0 - DigitsValue(lit.digits) ELSE DigitsValue(lit.digits))
                ELSE Raise("ValueError")
      [] OTHER        -> Raise("TypeError")

\* int(x or 0)
IntOrZero(x) == IF Truthy(x) THEN PyIntOf(x) ELSE Return(0)

\* str(x or "") for the string-valued keys
StrOrEmpty(x) == IF Truthy(x) THEN x.v ELSE <<>>

(***************************************************************************)
(* _ms_to_iso8601.  Epoch milliseconds exceed TLC's 32-bit integers, so    *)
(* int(ms) keeps the decimal digits and the division by one day is done    *)
(* digit by digit; everything after it fits.                               *)
(***************************************************************************)
MsPerDay    == 86400000
MaxMsDigits == 15        \* 10^15 ms is beyond year 9999
MinDay      == -719162   \* 0001-01-01, datetime.min
MaxDay      == 2932896   \* 9999-12-31, datetime.max

\* long division of a digit string by d: <<quotient, remainder>>
RECURSIVE DivModDigits(_, _)
DivModDigits(digits, d) ==
    IF digits = <<>> THEN <<0, 0>>
    ELSE LET prev == DivModDigits(SubSeq(digits, 1, Len(digits) - 1), d)
             cur  == prev[2] * 10 + DigitValue(digits[Len(digits)])
         IN  <<prev[1] * 10 + (cur \div d), cur % d>>

\* int(ms) as (day, millisecond of the day), flooring; ok = FALSE when the
\* value cannot be a datetime (int() raises, or the year is out of range)
EpochDay(ms) ==
    CASE ms.t = "int" ->
            [ok |-> TRUE, day |-> ms.v \div MsPerDay, msOfDay |-> ms.v % MsPerDay]
      [] ms.t = "str" ->
            LET lit == ParseIntLiteral(ms.v)
            IN  IF ~lit.ok \/ Len(lit.digits) > MaxMsDigits THEN [ok |-> FALSE]
                ELSE LET qr == DivModDigits(lit.digits, MsPerDay)
                     IN  IF ~lit.neg THEN [ok |-> TRUE, day |-> qr[1], msOfDay |-> qr[2]]
                         ELSE IF qr[2] = 0
                              THEN [ok |-> TRUE, day |-> 0 - qr[1], msOfDay |-> 0]
                              ELSE [ok |-> TRUE, day |-> 0 - qr[1] - 1,
                                    msOfDay |-> MsPerDay - qr[2]]
      [] OTHER -> [ok |-> FALSE]

\* the proleptic Gregorian date of a day number (days since 1970-01-01)
CivilFromDays(day) ==
    LET z   == day + 719468
        era == z \div 146097
        doe == z - era * 146097
        yoe == (doe - (doe \div 1460) + (doe \div 36524) - (doe \div 146096)) \div 365
        doy == doe - (365 * yoe + (yoe \div 4) - (yoe \div 100))
        mp  == (5 * doy + 2) \div 153
        d   == doy - ((153 * mp + 2) \div 5) + 1
        m   == IF mp < 10 THEN mp + 3 ELSE mp - 9
        y   == yoe + era * 400 + (IF m <= 2 THEN 1 ELSE 0)
    IN  [year |-> y, month |-> m, day |-> d]

\* n written with exactly w decimal digits, zero padded
RECURSIVE Digits(_, _)
Digits(n, w) ==
    IF w = 0 THEN <<>> ELSE Digits(n \div 10, w - 1) \o <<DigitChars[(n % 10) + 1]>>

\* dt.isoformat() of an aware UTC datetime: the fraction is written only when
\* the microsecond is not zero, and the offset is "+00:00".  The float
\* ms_int / 1000.0 rounds to the microsecond (ms % 1000) * 1000 for the
\* timestamps of this era, which are the ones drawn here.
IsoFormatUtc(date, msOfDay) ==
    LET secs  == msOfDay \div 1000
        micro == (msOfDay % 1000) * 1000
    IN  Digits(date.year, 4) \o <<"-">> \o Digits(date.month, 2) \o <<"-">>
        \o Digits(date.day, 2) \o <<"T">> \o Digits(secs \div 3600, 2) \o <<":">>
        \o Digits((secs \div 60) % 60, 2) \o <<":">> \o Digits(secs % 60, 2)
        \o (IF micro # 0 THEN <<".">> \o Digits(micro, 6) ELSE <<>>)
        \o <<"+","0","0",":","0","0">>

\* s.replace("+00:00", "Z") for a string that ends with its only "+00:00"
ReplaceUtcOffset(s) ==
    IF Len(s) >= 6 /\ SubSeq(s, Len(s) - 5, Len(s)) = <<"+","0","0",":","0","0">>
    THEN SubSeq(s, 1, Len(s) - 6) \o <<"Z">>
    ELSE s

\* a plausible slip: the local offset of a UTC+1 host leaks into the conversion
ms_to_iso8601_LocalTime(ms) ==
    LET e == EpochDay(ms)
    IN  IF ~e.ok \/ e.day < MinDay \/ e.day > MaxDay THEN <<>>
        ELSE LET shifted == e.msOfDay + 3600000
                 day     == e.day + (shifted \div MsPerDay)
             IN  ReplaceUtcOffset(IsoFormatUtc(CivilFromDays(day), shifted % MsPerDay))

\* _ms_to_iso8601(ms)
ms_to_iso8601(ms) ==
    LET e == EpochDay(ms)
    IN  IF ~e.ok \/ e.day < MinDay \/ e.day > MaxDay THEN <<>>
        ELSE ReplaceUtcOffset(IsoFormatUtc(CivilFromDays(e.day), e.msOfDay))

(***************************************************************************)
(* list_invoice_attachments                                                *)
(***************************************************************************)
\* the AttachmentRef appended for attachment a of a message
AttachmentRef(mid, subject, received_at, a, size) ==
    [ message_id    |-> mid,
      attachment_id |-> StrOrEmpty(a.attachmentId),
      filename      |-> StrOrEmpty(a.filename),
      mime_type     |-> StrOrEmpty(a.mimeType),
      size_bytes    |-> size,
      thread_id     |-> <<>>,
      subject       |-> subject,
      from_address  |-> <<>>,
      received_at   |-> received_at ]

\* m.get("attachments") or []
AttachmentsOf(m) == IF m.attachments.t = "list" THEN m.attachments.v ELSE <<>>

\* the inner loop over the attachments atts of one message, from index j on:
\* Return(refs appended) or the exception int() raised
RECURSIVE AppendRefs(_, _, _, _, _)
AppendRefs(mid, subject, received_at, atts, j) ==
    IF j > Len(atts) THEN Return(<<>>)
    ELSE LET size == IntOrZero(atts[j].size)
         IN  IF size.kind = "raise" THEN size
             ELSE LET rest == AppendRefs(mid, subject, received_at, atts, j + 1)
                  IN  IF rest.kind = "raise" THEN rest
                      ELSE Return(<<AttachmentRef(mid, subject, received_at, atts[j], size.value)>>
                                  \o rest.value)

\* the outer loop over msgs, from index i on
RECURSIVE NormalizeFrom(_, _)
NormalizeFrom(msgs, i) ==
    IF i > Len(msgs) THEN Return(<<>>)
    ELSE LET m    == msgs[i]
             refs == AppendRefs(StrOrEmpty(m.messageId), StrOrEmpty(m.subject),
                                ms_to_iso8601(m.internalDate), AttachmentsOf(m), 1)
         IN  IF refs.kind = "raise" THEN refs
             ELSE LET rest == NormalizeFrom(msgs, i + 1)
                  IN  IF rest.kind = "raise" THEN rest
                      ELSE Return(refs.value \o rest.value)

\* _require_env(name): the value, or RuntimeError when it is unset or empty
require_env(val) == IF Truthy(val) THEN Return(val.v) ELSE Raise("RuntimeError")

(***************************************************************************)
(* Inputs of the normalizer                                                *)
(***************************************************************************)
MaxMsgs      == 2     \* messages in one listing
MaxTotalAtts == 2     \* attachments in one listing, over all messages

S_m1 == <<"m","1">>
S_m2 == <<"m","2">>
S_a1 == <<"a","1">>
S_a2 == <<"a","2">>
S_a3 == <<"a","3">>
S_subject == <<"I","n","v","o","i","c","e"," ","A","B","C">>
S_ms == <<"1","7","2","5","4","7","8","2","9","4","0","0","0">>
S_png == <<"i","m","a","g","e",".","p","n","g">>
S_inv_pdf == <<"i","n","v",".","p","d","f">>
S_mime_pdf == <<"a","p","p","l","i","c","a","t","i","o","n","/","p","d","f">>
S_mime_png == <<"i","m","a","g","e","/","p","n","g">>

Att(id, fn, mime, size) == [attachmentId |-> id, filename |-> fn, mimeType |-> mime, size |-> size]

\* the two attachments of the test listing
Att_a1 == Att(Str(S_a1), Str(S_inv_pdf), Str(S_mime_pdf), PyInt(1234))
Att_a2 == Att(Str(S_a2), Str(S_png), Str(S_mime_png), PyInt(999))

RawAttachments ==
    { Att_a1, Att_a2,
      Att(Absent, Absent, Absent, Absent),
      Att(Str(S_a3), Str(S_inv_pdf), Absent, Str(<<>>)),
      Att(Str(S_a3), Str(S_inv_pdf), Str(S_mime_pdf), Str(<<"a","b","c">>)),
      Att(Str(S_a3), Str(S_png), Str(S_mime_png), Str(<<" ","4","2">>)) }

NoList == Absent

Msg(id, subject, date, atts) ==
    [messageId |-> id, subject |-> subject, internalDate |-> date, attachments |-> atts]

MessageHeads ==
    { <<Str(S_m1), Str(S_subject), Str(S_ms)>>, <<Str(S_m2), Absent, Absent>> }

\* messages with exactly n attachments (n = 0: an empty or a missing list)
RawMessages(n) ==
    { Msg(h[1], h[2], h[3], a) :
        h \in MessageHeads,
        a \in { List(l) : l \in [1..n -> RawAttachments] }
              \cup (IF n = 0 THEN {NoList} ELSE {}) }

\* listings of at most k messages holding at most t attachments in all
RECURSIVE ListingsUpTo(_, _)
ListingsUpTo(k, t) ==
    IF k = 0 THEN { <<>> }
    ELSE { <<>> } \cup
         UNION { { <<m>> \o rest : m \in RawMessages(n), rest \in ListingsUpTo(k - 1, t - n) } :
                 n \in 0..t }

InitList ==
    /\ list_env \in {Absent, Str(<<>>), Str(<<"t","o","k">>)}
    /\ list_msgs = <<>>
    /\ list_calls = 0
    /\ list_result = Pending
    /\ IdleSelect
    /\ IdleUpload
    /\ IdleDownload
    /\ IdleAugment

\* list_invoice_attachments(query, lookback_days), the token missing:
\* _require_env raises before the collaborator is called
ListNoToken ==
    /\ list_result = Pending
    /\ require_env(list_env).kind = "raise"
    /\ list_result' = require_env(list_env)
    /\ UNCHANGED <<aug_vars, list_env, list_msgs, list_calls, sel_vars, up_vars, dl_vars>>

\* list_invoice_attachments(query, lookback_days): the collaborator is called
\* once, answers with some listing, and the listing is normalized
ListAttachments ==
    /\ list_result = Pending
    /\ require_env(list_env).kind = "return"
    /\ list_calls' = list_calls + 1
    /\ \E l \in ListingsUpTo(MaxMsgs, MaxTotalAtts) :
          /\ list_msgs' = l
          /\ list_result' = NormalizeFrom(l, 1)
    /\ UNCHANGED <<aug_vars, list_env, sel_vars, up_vars, dl_vars>>

NextList == ListNoToken \/ ListAttachments

SpecList == InitList /\ [][NextList]_vars

(***************************************************************************)
(* Listings whose messages carry every kind of internalDate                *)
(***************************************************************************)
S_abc       == <<"a","b","c">>
S_year10000 == <<"2","5","3","4","0","2","3","0","0","8","0","0","0","0","0">>
S_year0     == <<"-","6","2","1","3","5","5","9","6","8","0","0","0","0","1">>

\* internalDate: the test's timestamp, missing (or null), empty, not a number,
\* the first millisecond of year 10000, the last millisecond before year 1
RawDates == { Str(S_ms), Absent, Str(<<>>), Str(S_abc), Str(S_year10000), Str(S_year0) }

DatedAttachments ==
    { NoList, List(<<Att_a1>>), List(<<Att_a1, Att_a2>>),
      List(<<Att(Str(S_a3), Str(S_inv_pdf), Str(S_mime_pdf), Str(S_abc))>>) }

DatedMessages ==
    { Msg(Str(S_m1), Str(S_subject), d, a) : d \in RawDates, a \in DatedAttachments }

RECURSIVE DatedListings(_)
DatedListings(k) ==
    IF k = 0 THEN { <<>> }
    ELSE { <<>> } \cup { <<m>> \o rest : m \in DatedMessages, rest \in DatedListings(k - 1) }

\* list_invoice_attachments(query, lookback_days) on such a listing
ListDated ==
    /\ list_result = Pending
    /\ require_env(list_env).kind = "return"
    /\ list_calls' = list_calls + 1
    /\ \E l \in DatedListings(MaxMsgs) :
          /\ list_msgs' = l
          /\ list_result' = NormalizeFrom(l, 1)
    /\ UNCHANGED <<aug_vars, list_env, sel_vars, up_vars, dl_vars>>

NextListDated == ListNoToken \/ ListDated

SpecListDated == InitList /\ [][NextListDated]_vars

(***************************************************************************)
(* _append_lookback_to_query                                               *)
(***************************************************************************)
\* str.lower() (ASCII part)
LowerStr(s) == [i \in DOMAIN s |-> Lower(s[i])]

\* str.strip()
Strip(s) == StripRight(StripLeft(s))

\* str.split(): the maximal runs of non-whitespace characters, in order
RECURSIVE SplitFrom(_, _, _)
SplitFrom(s, i, tok) ==
    IF i > Len(s) THEN (IF tok = <<>> THEN <<>> ELSE <<tok>>)
    ELSE IF IsSpaceChar(s[i])
         THEN (IF tok = <<>> THEN <<>> ELSE <<tok>>) \o SplitFrom(s, i + 1, <<>>)
         ELSE SplitFrom(s, i + 1, Append(tok, s[i]))

Split(s) == SplitFrom(s, 1, <<>>)

\* str.startswith(prefix)
StartsWith(s, prefix) ==
    Len(s) >= Len(prefix) /\ SubSeq(s, 1, Len(prefix)) = prefix

L_has_attachment == <<"h","a","s",":","a","t","t","a","c","h","m","e","n","t">>
L_newer_than     == <<"n","e","w","e","r","_","t","h","a","n",":">>

\* a plausible slip: the tokens are compared without lowering the query
QueryTokensCased(q) == Split(q)

\* line 64: q.lower().split()
QueryTokens(q) == Split(LowerStr(q))

\* lines 65-66: any(t.startswith(prefix) for t in tokens)
AnyStartsWith(tokens, prefix) ==
    \E i \in DOMAIN tokens : StartsWith(tokens[i], prefix)

\* str(n) of a positive integer
RECURSIVE DecimalStr(_)
DecimalStr(n) ==
    IF n < 10 THEN <<DigitChars[n + 1]>>
    ELSE DecimalStr(n \div 10) \o <<DigitChars[(n % 10) + 1]>>

\* lines 62-71
append_lookback_to_query(query, lookback_days) ==
    LET q0     == Strip(StrOrEmpty(query))
        tokens == QueryTokens(q0)
        has_attachment == AnyStartsWith(tokens, L_has_attachment)
        has_newer_than == AnyStartsWith(tokens, L_newer_than)
        q1     == IF ~has_attachment
                  THEN Strip(q0 \o SP \o L_has_attachment)
                  ELSE q0
    IN  IF Truthy(lookback_days) /\ lookback_days.v > 0 /\ ~has_newer_than
        THEN Strip(q1 \o SP \o L_newer_than \o DecimalStr(lookback_days.v) \o <<"d">>)
        ELSE q1

(***************************************************************************)
(* Inputs of the query augmentation: queries put together from pieces, so  *)
(* that filter tokens occur alone, glued to other text, in either case and *)
(* between any whitespace.                                                 *)
(***************************************************************************)
MaxPieces == 3

QueryPieces ==
    { SP, TAB,
      L_has_attachment,
      <<"H","A","S",":","A","t","t","a","c","h","m","e","n","t">>,
      <<"h","a","s",":">>,
      L_newer_than \o <<"3","d">>,
      <<"N","e","w","e","r","_","T","h","a","n",":">>,
      <<"i","n",":","i","n","b","o","x">> }

RECURSIVE QueryTexts(_)
QueryTexts(n) ==
    IF n = 0 THEN { <<>> }
    ELSE QueryTexts(n - 1) \cup { q \o p : q \in QueryTexts(n - 1), p \in QueryPieces }

\* the query is a string or None
Queries(n) == { Str(q) : q \in QueryTexts(n) } \cup { Absent }

\* lookback_days: an integer, or None
Lookbacks == { Absent, PyInt(-1), PyInt(0), PyInt(1), PyInt(7), PyInt(30) }

InitAugment ==
    /\ aug_query \in Queries(MaxPieces)
    /\ aug_days \in Lookbacks
    /\ aug_out = <<>>
    /\ IdleSelect
    /\ IdleList
    /\ IdleUpload
    /\ IdleDownload

\* _append_lookback_to_query(query, lookback_days)
Augment ==
    /\ aug_out = <<>>
    /\ aug_out' = <<append_lookback_to_query(aug_query, aug_days)>>
    /\ UNCHANGED <<aug_query, aug_days, sel_vars, list_vars, up_vars, dl_vars>>

\* the same function applied to its own result, with the same lookback
AugmentAgain ==
    /\ Len(aug_out) = 1
    /\ aug_out' = Append(aug_out, append_lookback_to_query(Str(aug_out[1]), aug_days))
    /\ UNCHANGED <<aug_query, aug_days, sel_vars, list_vars, up_vars, dl_vars>>

NextAugment == Augment \/ AugmentAgain

SpecAugment == InitAugment /\ [][NextAugment]_vars

(***************************************************************************)
(* upload_pdf_to_planner                                                   *)
(***************************************************************************)
Bytes(b)     == [t |-> "bytes", v |-> b]
ByteArray(b) == [t |-> "bytearray", v |-> b]
Dict(d)      == [t |-> "dict", v |-> d]

B_magic == <<"%","P","D","F">>

\* a plausible slip: the length of the payload is not looked at
IsBytesOfAnyLength(x) == x.t \in {"bytes", "bytearray"}

\* isinstance(pdf_bytes, (bytes, bytearray)) and len(pdf_bytes) != 0
IsNonEmptyBytes(x) == x.t \in {"bytes", "bytearray"} /\ x.v # <<>>

\* bytes(pdf_bytes[:4]).startswith(b"%PDF")
StartsWithPdf(b) == Len(b) >= Len(B_magic) /\ SubSeq(b, 1, Len(B_magic)) = B_magic

\* the try block of the header check: the ValueError it raises for a payload
\* without the header is an Exception, so the except clause of the same try
\* catches it and passes; either way the call goes on
PdfSanityCheck(x) ==
    LET body == IF ~StartsWithPdf(x.v) THEN Raise("ValueError") ELSE Return("ok")
    IN  IF body.kind = "raise" THEN Return("pass") ELSE body

\* resp.status_code < 200 or resp.status_code >= 300
IsErrorStatus(status) == status < 200 \/ status >= 300

\* the length of the body excerpt an error message may carry
ExcerptLen == 200

\* a plausible slip: the body is put into the message in full
ExcerptWhole(text) == StrOrEmpty(text)

\* line 231: (resp.text or "")[:200]
Excerpt(text) ==
    SubSeq(StrOrEmpty(text), 1,
           IF Len(StrOrEmpty(text)) < ExcerptLen THEN Len(StrOrEmpty(text)) ELSE ExcerptLen)

S_planner_upload_failed ==
    <<"P","l","a","n","n","e","r"," ","u","p","l","o","a","d"," ","f","a","i","l","e","d",":"," ">>
S_HTTP == <<"H","T","T","P"," ">>

\* line 232: RuntimeError(f"Planner upload failed: HTTP {resp.status_code}: {text}")
HttpError(resp) ==
    [ kind |-> "raise", exc |-> "RuntimeError",
      msg  |-> S_planner_upload_failed \o S_HTTP \o DecimalStr(resp.status)
               \o <<":", " ">> \o Excerpt(resp.text) ]

\* an exception raised from another one (raise ... from e)
RaiseFrom(e, cause) == [kind |-> "raise", exc |-> e, cause |-> cause]

\* what requests.post can raise: the first two are requests.Timeout
PostFailures == {"ConnectTimeout", "ReadTimeout", "ConnectionError", "SSLError", "OSError"}
IsTimeout(e) == e \in {"ConnectTimeout", "ReadTimeout"}

\* a plausible slip: every failure of the request is reported as the generic error
PostFailureGeneric(e) == RaiseFrom("RuntimeError", e)

\* lines 224-227: except requests.Timeout comes before except Exception
PostFailure(e) ==
    IF IsTimeout(e) THEN RaiseFrom("TimeoutError", e) ELSE RaiseFrom("RuntimeError", e)

\* data = resp.json(), or {} when json() raises
ResponseData(resp) == IF resp.body.t = "nojson" THEN Dict(<<>>) ELSE resp.body

\* data.get(key): None for a missing key and for null
Get(data, key) == IF key \in DOMAIN data.v THEN data.v[key] ELSE Absent

\* data.get(a) or data.get(b) or default
FirstTruthy(x, y, default) == IF Truthy(x) THEN x ELSE IF Truthy(y) THEN y ELSE default

\* x = data.get(key) or []; if isinstance(x, str): x = [x]
AsSequence(x) ==
    LET y == IF Truthy(x) THEN x ELSE List(<<>>)
    IN  IF y.t = "str" THEN List(<<y>>) ELSE y

\* the adaptation of the response data to an InsertReport; data.get raises
\* AttributeError when the JSON value is not an object
InsertReport(data, source_message_id) ==
    IF data.t # "dict" THEN Raise("AttributeError")
    ELSE LET ids     == Get(data, "created_order_ids")
             created == IF ids.t # "none" THEN ids
                        ELSE IF Get(data, "created").t # "none" THEN Get(data, "created")
                        ELSE List(<<>>)
         IN  Return([ created_order_ids |-> created,
                      warnings          |-> AsSequence(Get(data, "warnings")),
                      errors            |-> AsSequence(Get(data, "errors")),
                      source_message_id |-> FirstTruthy(source_message_id, Absent, Str(<<>>)),
                      notes             |-> FirstTruthy(Get(data, "notes"), Get(data, "detail"),
                                                        Str(<<>>)) ])

(***************************************************************************)
(* Inputs of the upload adapter                                            *)
(***************************************************************************)
S_minor == <<"m","i","n","o","r">>
S_bad   == <<"b","a","d">>
S_ok    == <<"o","k">>
S_123   == <<"1","2","3">>

Payloads ==
    { Absent, Str(B_magic), Bytes(<<>>),
      Bytes(B_magic \o <<"-","1",".","4">>), ByteArray(B_magic),
      Bytes(<<"a","b","c","d","e">>), Bytes(<<"%","P","D">>), ByteArray(<<"P","K">>) }

\* the values the upstream service may put in the warnings or the errors field
NoteValues ==
    { Absent, Str(<<>>), Str(S_minor), List(<<>>), List(<<Str(S_bad)>>),
      List(<<Str(S_minor), Str(S_bad)>>), PyInt(5) }

Field(k, x) == IF x = Absent THEN <<>> ELSE (k :> x)

JsonObjects ==
    { Dict(Field("created_order_ids", ids) @@ Field("created", cr) @@ Field("warnings", w)
           @@ Field("errors", e) @@ Field("notes", n) @@ Field("detail", d)) :
        ids \in {Absent, List(<<>>), List(<<Str(S_123)>>)},
        cr  \in {Absent, List(<<PyInt(7)>>)},
        w   \in NoteValues,
        e   \in NoteValues,
        n   \in {Absent, Str(S_ok)},
        d   \in {Absent, Str(S_bad)} }

\* response bodies: no JSON at all (json() raises), or any JSON value
Bodies ==
    { [t |-> "nojson"], Absent, List(<<>>), Str(S_ok), PyInt(5) } \cup JsonObjects

OkStatuses  == {200, 204, 299}
BadStatuses == {199, 300, 400, 500}

S_bad_request ==
    <<"B","a","d"," ","r","e","q","u","e","s","t",":"," ",
      "i","n","v","a","l","i","d"," ","P","D","F">>

\* a body text of n characters, no two neighbours alike
TextOfLen(n) == [i \in 1..n |-> DigitChars[(i % 10) + 1]]

\* resp.text of a refused upload: None, empty, short, and around the excerpt length
ErrorTexts ==
    { Absent, Str(<<>>), Str(S_bad_request), Str(TextOfLen(ExcerptLen - 1)),
      Str(TextOfLen(ExcerptLen)), Str(TextOfLen(ExcerptLen + 1)), Str(TextOfLen(ExcerptLen + 60)) }

Responses ==
    { [status |-> st, body |-> b, text |-> Str(<<>>)] : st \in OkStatuses, b \in Bodies }
    \cup { [status |-> st, body |-> b, text |-> t] :
             st \in BadStatuses, t \in ErrorTexts,
             b \in {[t |-> "nojson"], Dict("error" :> Str(S_bad))} }

InitUpload ==
    /\ up_pc = "validate"
    /\ up_args \in [pdf_bytes : Payloads, source_message_id : {Absent, Str(S_m1)}]
    /\ up_env \in [base : {Absent, Str(<<>>), Str(<<"h","t","t","p",":","/","/","p">>)},
                   key  : {Absent, Str(<<"k">>)}]
    /\ up_posts = <<>>
    /\ up_resp = Absent
    /\ up_result = Pending
    /\ IdleSelect
    /\ IdleList
    /\ IdleDownload
    /\ IdleAugment

UpFinish(result) == up_pc' = "done" /\ up_result' = result

\* lines 202-203: the payload must be non-empty bytes
UpValidateFail ==
    /\ up_pc = "validate"
    /\ ~IsNonEmptyBytes(up_args.pdf_bytes)
    /\ UpFinish(Raise("ValueError"))
    /\ UNCHANGED <<aug_vars, up_args, up_env, up_posts, up_resp, sel_vars, list_vars, dl_vars>>

\* lines 205-211: the header check, whose verdict is dropped
UpValidate ==
    /\ up_pc = "validate"
    /\ IsNonEmptyBytes(up_args.pdf_bytes)
    /\ IF PdfSanityCheck(up_args.pdf_bytes).kind = "raise"
       THEN UpFinish(PdfSanityCheck(up_args.pdf_bytes))
       ELSE up_pc' = "config" /\ UNCHANGED up_result
    /\ UNCHANGED <<aug_vars, up_args, up_env, up_posts, up_resp, sel_vars, list_vars, dl_vars>>

\* line 213: PLANNER_API_BASE is required
UpConfigFail ==
    /\ up_pc = "config"
    /\ require_env(up_env.base).kind = "raise"
    /\ UpFinish(require_env(up_env.base))
    /\ UNCHANGED <<aug_vars, up_args, up_env, up_posts, up_resp, sel_vars, list_vars, dl_vars>>

UpConfig ==
    /\ up_pc = "config"
    /\ require_env(up_env.base).kind = "return"
    /\ up_pc' = "post"
    /\ UNCHANGED <<aug_vars, up_args, up_env, up_posts, up_resp, up_result, sel_vars, list_vars, dl_vars>>

\* the request of lines 214-223: the Authorization header only with a key
Request ==
    [ base    |-> up_env.base.v,
      auth    |-> IF Truthy(up_env.key) THEN up_env.key ELSE Absent,
      file    |-> up_args.pdf_bytes.v,
      timeout |-> 30 ]

\* lines 222-225: requests.post raises requests.Timeout
UpPostTimeout ==
    /\ up_pc = "post"
    /\ up_posts' = Append(up_posts, Request)
    /\ \E e \in PostFailures : IsTimeout(e) /\ UpFinish(PostFailure(e))
    /\ UNCHANGED <<aug_vars, up_args, up_env, up_resp, sel_vars, list_vars, dl_vars>>

\* lines 226-227: requests.post raises anything else
UpPostError ==
    /\ up_pc = "post"
    /\ up_posts' = Append(up_posts, Request)
    /\ \E e \in PostFailures : ~IsTimeout(e) /\ UpFinish(PostFailure(e))
    /\ UNCHANGED <<aug_vars, up_args, up_env, up_resp, sel_vars, list_vars, dl_vars>>

\* line 223: requests.post returns a response
UpPost ==
    /\ up_pc = "post"
    /\ up_posts' = Append(up_posts, Request)
    /\ \E r \in Responses : up_resp' = r
    /\ up_pc' = "respond"
    /\ UNCHANGED <<aug_vars, up_args, up_env, up_result, sel_vars, list_vars, dl_vars>>

\* lines 229-232: a status outside 2xx
UpErrorStatus ==
    /\ up_pc = "respond"
    /\ IsErrorStatus(up_resp.status)
    /\ UpFinish(HttpError(up_resp))
    /\ UNCHANGED <<aug_vars, up_args, up_env, up_posts, up_resp, sel_vars, list_vars, dl_vars>>

\* lines 234-262: the response body becomes the InsertReport
UpAdapt ==
    /\ up_pc = "respond"
    /\ ~IsErrorStatus(up_resp.status)
    /\ UpFinish(InsertReport(ResponseData(up_resp), up_args.source_message_id))
    /\ UNCHANGED <<aug_vars, up_args, up_env, up_posts, up_resp, sel_vars, list_vars, dl_vars>>

NextUpload ==
    \/ UpValidateFail \/ UpValidate \/ UpConfigFail \/ UpConfig
    \/ UpPostTimeout \/ UpPostError \/ UpPost \/ UpErrorStatus \/ UpAdapt

SpecUpload == InitUpload /\ [][NextUpload]_vars

(***************************************************************************)
(* download_attachment                                                     *)
(***************************************************************************)
\* ref.get(a) or ref.get(b)
GetEither(ref, a, b) == IF Truthy(Get(ref, a)) THEN Get(ref, a) ELSE Get(ref, b)

\* a plausible slip: only the snake-case keys are read
RefIdsSnakeOnly(ref) ==
    [ message_id    |-> Get(ref, "message_id"),
      attachment_id |-> Get(ref, "attachment_id") ]

\* lines 158-159: the identifiers under either key naming
RefIds(ref) ==
    [ message_id    |-> GetEither(ref, "message_id", "messageId"),
      attachment_id |-> GetEither(ref, "attachment_id", "attachmentId") ]

\* lines 156-161: Return(the identifiers) or ValueError
ValidateRef(ref) ==
    IF ref.t # "dict" THEN Raise("ValueError")
    ELSE IF ~Truthy(RefIds(ref).message_id) \/ ~Truthy(RefIds(ref).attachment_id)
         THEN Raise("ValueError")
         ELSE Return(RefIds(ref))

S_gmail_ == <<"g","m","a","i","l","_">>

\* line 165: ref.get("filename") or f"gmail_{attachment_id}"
PreferredName(ref) ==
    IF Truthy(Get(ref, "filename")) THEN Get(ref, "filename").v
    ELSE S_gmail_ \o StrOrEmpty(RefIds(ref).attachment_id)

\* the email collaborator's download primitive: it stores the attachment's bytes
\* in a local file named after the filename hint and returns the file's path
SavedPath(filename) == <<"/","t","m","p","/">> \o filename
StoredBytes(message_id, attachment_id) == message_id \o <<":">> \o attachment_id

\* what open(path, "rb") or f.read() can raise
ReadCauses == {"FileNotFoundError", "PermissionError"}

\* line 172: RuntimeError(f"Failed to read downloaded attachment from {path}: {e}") from e
ReadError(path, cause) ==
    [kind |-> "raise", exc |-> "RuntimeError", path |-> path, cause |-> cause]

\* one call of os.remove (line 178)
Removal(c, path, ok) == [call |-> c, path |-> path, ok |-> ok]

\* a plausible slip: the error of a failed deletion replaces the outcome of the read
AfterCleanupSurfaced(read, removed) == IF removed THEN read ELSE Raise("OSError")

\* lines 173-182: the finally clause swallows the error of os.remove, so the call
\* ends with the outcome of the read whether the file was removed or not
AfterCleanup(read, removed) == read

(***************************************************************************)
(* Inputs of the fetcher                                                   *)
(***************************************************************************)
RefDicts ==
    { Dict(Field("message_id", a) @@ Field("messageId", b) @@ Field("attachment_id", c)
           @@ Field("attachmentId", d) @@ Field("filename", f)) :
        a \in {Absent, Str(<<>>), Str(S_m1)},
        b \in {Absent, Str(<<>>), Str(S_m2)},
        c \in {Absent, Str(<<>>), Str(S_a1)},
        d \in {Absent, Str(<<>>), Str(S_a2)},
        f \in {Absent, Str(S_inv_pdf)} }

Refs == RefDicts \cup { Absent, Str(S_m1) }

InitDownload ==
    /\ dl_ref \in { [c \in Calls |-> IF c = 1 THEN r ELSE Absent] : r \in Refs }
    /\ dl_pc = [c \in Calls |-> IF c = 1 THEN "validate" ELSE "idle"]
    /\ dl_path = [c \in Calls |-> Absent]
    /\ dl_read = [c \in Calls |-> Pending]
    /\ dl_result = [c \in Calls |-> Pending]
    /\ dl_invoked = <<>>
    /\ dl_removed = <<>>
    /\ dl_fs = <<>>
    /\ IdleSelect
    /\ IdleList
    /\ IdleUpload
    /\ IdleAugment

DlFinish(c, result) ==
    /\ dl_pc' = [dl_pc EXCEPT ![c] = "done"]
    /\ dl_result' = [dl_result EXCEPT ![c] = result]

\* lines 156-161: a ref without both identifiers is refused
DlValidateFail(c) ==
    /\ dl_pc[c] = "validate"
    /\ ValidateRef(dl_ref[c]).kind = "raise"
    /\ DlFinish(c, ValidateRef(dl_ref[c]))
    /\ UNCHANGED <<aug_vars, dl_ref, dl_path, dl_read, dl_invoked, dl_removed, dl_fs,
                   sel_vars, list_vars, up_vars>>

DlValidate(c) ==
    /\ dl_pc[c] = "validate"
    /\ ValidateRef(dl_ref[c]).kind = "return"
    /\ dl_pc' = [dl_pc EXCEPT ![c] = "download"]
    /\ UNCHANGED <<aug_vars, dl_ref, dl_path, dl_read, dl_result, dl_invoked, dl_removed, dl_fs,
                   sel_vars, list_vars, up_vars>>

\* the arguments of line 166
Invocation(c) ==
    [ call          |-> c,
      message_id    |-> ValidateRef(dl_ref[c]).value.message_id.v,
      attachment_id |-> ValidateRef(dl_ref[c]).value.attachment_id.v,
      filename      |-> PreferredName(dl_ref[c]) ]

\* line 166: the collaborator saves the attachment and returns its path
DlDownload(c) ==
    /\ dl_pc[c] = "download"
    /\ dl_invoked' = Append(dl_invoked, Invocation(c))
    /\ LET path == SavedPath(Invocation(c).filename)
       IN  /\ dl_path' = [dl_path EXCEPT ![c] = Str(path)]
           /\ dl_fs' = [q \in DOMAIN dl_fs \cup {path} |->
                           IF q = path
                           THEN StoredBytes(Invocation(c).message_id, Invocation(c).attachment_id)
                           ELSE dl_fs[q]]
    /\ dl_pc' = [dl_pc EXCEPT ![c] = "read"]
    /\ UNCHANGED <<aug_vars, dl_ref, dl_read, dl_result, dl_removed, sel_vars, list_vars, up_vars>>

\* line 166: the collaborator raises; nothing of the try statement has run
DlDownloadFail(c) ==
    /\ dl_pc[c] = "download"
    /\ dl_invoked' = Append(dl_invoked, Invocation(c))
    /\ DlFinish(c, Raise("RuntimeError"))
    /\ UNCHANGED <<aug_vars, dl_ref, dl_path, dl_read, dl_removed, dl_fs, sel_vars, list_vars, up_vars>>

\* lines 169-170: the file is there and is read in full
DlRead(c) ==
    /\ dl_pc[c] = "read"
    /\ dl_path[c].v \in DOMAIN dl_fs
    /\ dl_read' = [dl_read EXCEPT ![c] = Return(dl_fs[dl_path[c].v])]
    /\ dl_pc' = [dl_pc EXCEPT ![c] = "cleanup"]
    /\ UNCHANGED <<aug_vars, dl_ref, dl_path, dl_result, dl_invoked, dl_removed, dl_fs,
                   sel_vars, list_vars, up_vars>>

\* lines 171-172: open or read fails, because the file is gone or because it
\* cannot be read; the cause is wrapped in a RuntimeError that names the path
DlReadFail(c) ==
    /\ dl_pc[c] = "read"
    /\ \E cause \in ReadCauses :
          /\ cause = "FileNotFoundError" <=> dl_path[c].v \notin DOMAIN dl_fs
          /\ dl_read' = [dl_read EXCEPT ![c] = ReadError(dl_path[c].v, cause)]
    /\ dl_pc' = [dl_pc EXCEPT ![c] = "cleanup"]
    /\ UNCHANGED <<aug_vars, dl_ref, dl_path, dl_result, dl_invoked, dl_removed, dl_fs,
                   sel_vars, list_vars, up_vars>>

\* lines 173-182: os.remove(path) in the finally clause, then the outcome of the read
DlCleanup(c) ==
    /\ dl_pc[c] = "cleanup"
    /\ dl_path[c].v \in DOMAIN dl_fs
    /\ dl_removed' = Append(dl_removed, Removal(c, dl_path[c].v, TRUE))
    /\ dl_fs' = [q \in DOMAIN dl_fs \ {dl_path[c].v} |-> dl_fs[q]]
    /\ DlFinish(c, AfterCleanup(dl_read[c], TRUE))
    /\ UNCHANGED <<aug_vars, dl_ref, dl_path, dl_read, dl_invoked, sel_vars, list_vars, up_vars>>

\* lines 178-180: os.remove raises and the error is swallowed
DlCleanupFail(c) ==
    /\ dl_pc[c] = "cleanup"
    /\ dl_removed' = Append(dl_removed, Removal(c, dl_path[c].v, FALSE))
    /\ DlFinish(c, AfterCleanup(dl_read[c], FALSE))
    /\ UNCHANGED <<aug_vars, dl_ref, dl_path, dl_read, dl_invoked, dl_fs, sel_vars, list_vars, up_vars>>

NextDownload ==
    \E c \in Calls :
        \/ DlValidateFail(c) \/ DlValidate(c) \/ DlDownload(c) \/ DlDownloadFail(c)
        \/ DlRead(c) \/ DlReadFail(c) \/ DlCleanup(c) \/ DlCleanupFail(c)

SpecDownload == InitDownload /\ [][NextDownload]_vars

(***************************************************************************)
(* Several calls of download_attachment at once, e.g. from several threads: *)
(* the statements of the calls interleave, and the local files are shared.  *)
(***************************************************************************)
RefOf(mid, aid, fn) ==
    Dict(Field("message_id", mid) @@ Field("attachment_id", aid) @@ Field("filename", fn))

\* complete references: two attachments under the same filename, and one without
\* a filename
ConcurrentRefs ==
    { RefOf(Str(S_m1), Str(S_a1), Str(S_inv_pdf)),
      RefOf(Str(S_m2), Str(S_a2), Str(S_inv_pdf)),
      RefOf(Str(S_m2), Str(S_a3), Absent) }

InitConcurrent ==
    /\ dl_ref \in [Calls -> ConcurrentRefs]
    /\ dl_pc = [c \in Calls |-> "validate"]
    /\ dl_path = [c \in Calls |-> Absent]
    /\ dl_read = [c \in Calls |-> Pending]
    /\ dl_result = [c \in Calls |-> Pending]
    /\ dl_invoked = <<>>
    /\ dl_removed = <<>>
    /\ dl_fs = <<>>
    /\ IdleSelect
    /\ IdleList
    /\ IdleUpload
    /\ IdleAugment

\* every reference is complete, so no call ends in validation
NextConcurrent ==
    \E c \in Calls :
        \/ DlValidate(c) \/ DlDownload(c) \/ DlDownloadFail(c)
        \/ DlRead(c) \/ DlReadFail(c) \/ DlCleanup(c) \/ DlCleanupFail(c)

SpecConcurrent == InitConcurrent /\ [][NextConcurrent]_vars

(***************************************************************************)
(* Claims about choose_invoice_attachment                                  *)
(***************************************************************************)
Matches(a, p) == PatSearch(p, EffectiveName(a))
SelDone == sel_result # Pending
SelPositions == 1..Len(sel_atts)

\* C1: when some candidate's filename matches "commercial invoice" (pattern 1),
\* the selector returns a 1-based position inside the sequence together with the
\* record at that position, and that record's name matches pattern 1, whatever
\* the other candidates match and wherever the commercial invoice stands.
C1_CommercialInvoiceWins ==
    (SelDone /\ \E i \in SelPositions :
                    /\ Truthy(sel_atts[i].filename)
                    /\ PatSearch(1, sel_atts[i].filename.v))
    => /\ sel_result.kind = "tuple"
       /\ sel_result.pos \in SelPositions
       /\ sel_result.att = sel_atts[sel_result.pos]
       /\ Matches(sel_result.att, 1)

\* the commercial invoice is returned from position 2 although the first
\* candidate matches the lower-priority pattern "invoice"
C1_Witness ==
    /\ SelDone
    /\ Len(sel_atts) = 2
    /\ Matches(sel_atts[1], 2) /\ ~Matches(sel_atts[1], 1)
    /\ Truthy(sel_atts[2].filename) /\ PatSearch(1, sel_atts[2].filename.v)
    /\ sel_result = Selected(2, sel_atts[2])

\* the highest-priority pattern that candidate a matches (0: none)
BestPattern(a) ==
    IF \E p \in 1..NumPatterns : Matches(a, p)
    THEN CHOOSE p \in 1..NumPatterns :
            Matches(a, p) /\ \A q \in 1..(p - 1) : ~Matches(a, q)
    ELSE 0

\* C2: when a pattern matches some candidate, the selector returns (p, c) with c
\* the candidate at position p, no candidate anywhere matches a pattern of higher
\* priority than the one c matched, and no candidate before p matches that pattern.
C2_FirstOfHighestPriority ==
    (SelDone /\ \E i \in SelPositions : BestPattern(sel_atts[i]) # 0)
    => /\ sel_result.kind = "tuple"
       /\ sel_result.pos \in SelPositions
       /\ sel_result.att = sel_atts[sel_result.pos]
       /\ BestPattern(sel_result.att) # 0
       /\ \A i \in SelPositions :
              \A q \in 1..(BestPattern(sel_result.att) - 1) : ~Matches(sel_atts[i], q)
       /\ \A i \in 1..(sel_result.pos - 1) :
              ~Matches(sel_atts[i], BestPattern(sel_result.att))

\* two candidates match the same pattern (not the first one) and the earlier wins
C2_Witness ==
    /\ SelDone
    /\ Len(sel_atts) = 2
    /\ sel_atts[1] # sel_atts[2]
    /\ BestPattern(sel_atts[1]) = 4
    /\ BestPattern(sel_atts[2]) = 4
    /\ sel_result = Selected(1, sel_atts[1])

\* C3: when no candidate's filename (or title, the filename being empty or
\* missing) matches any of the four patterns, the selector returns position 1 with
\* the first element of a non-empty sequence, and None for the empty sequence.
C3_FallbackFirstOrNone ==
    (SelDone /\ \A i \in SelPositions : BestPattern(sel_atts[i]) = 0)
    => sel_result = (IF Len(sel_atts) > 0 THEN Selected(1, sel_atts[1]) ELSE NoSelection)

\* nothing matches in a sequence of two different candidates: the first is returned
C3_Witness ==
    /\ SelDone
    /\ Len(sel_atts) = 2
    /\ sel_atts[1] # sel_atts[2]
    /\ \A i \in SelPositions : BestPattern(sel_atts[i]) = 0
    /\ sel_result = Selected(1, sel_atts[1])

\* the empty sequence yields no selection
C3_WitnessEmpty == SelDone /\ sel_atts = <<>> /\ sel_result = NoSelection

(***************************************************************************)
(* Claims about list_invoice_attachments                                   *)
(***************************************************************************)
\* the call is over and the collaborator was asked for its listing
ListDone == list_result # Pending /\ list_calls = 1

\* number of attachments of all the messages of a listing
RECURSIVE TotalAtts(_)
TotalAtts(msgs) ==
    IF msgs = <<>> THEN 0 ELSE Len(AttachmentsOf(Head(msgs))) + TotalAtts(Tail(msgs))

\* number of attachments of the messages before message i
AttsBefore(i) == TotalAtts(SubSeq(list_msgs, 1, i - 1))

\* refs holds one reference per (message, attachment) pair, in message order and
\* then attachment order, each with the identifiers of its own message
IsFlattening(refs) ==
    /\ Len(refs) = TotalAtts(list_msgs)
    /\ \A i \in 1..Len(list_msgs) :
          \A j \in 1..Len(AttachmentsOf(list_msgs[i])) :
              LET r == refs[AttsBefore(i) + j]
                  a == AttachmentsOf(list_msgs[i])[j]
              IN  /\ r.message_id = StrOrEmpty(list_msgs[i].messageId)
                  /\ r.subject = StrOrEmpty(list_msgs[i].subject)
                  /\ r.attachment_id = StrOrEmpty(a.attachmentId)
                  /\ r.filename = StrOrEmpty(a.filename)
                  /\ r.mime_type = StrOrEmpty(a.mimeType)

\* C4: for every listing the collaborator returns, the output holds exactly one
\* AttachmentRef per (message, attachment) pair, in message order and then
\* attachment order, each carrying the message_id and subject of its own message.
C4_Flattening ==
    ListDone => (list_result.kind = "return" /\ IsFlattening(list_result.value))

\* what the code does keep of C4: whenever the call returns, its value is the flattening
C4_FlatteningWhenReturned ==
    (ListDone /\ list_result.kind = "return") => IsFlattening(list_result.value)

\* the size field is missing (or null), or is a string int() does not accept
SizeMissingOrNonNumeric(x) ==
    \/ x.t = "none"
    \/ x.t = "str" /\ ~ParseIntLiteral(x.v).ok

\* C5: an attachment whose size field is missing or non-numeric gets size_bytes = 0,
\* and the listing call never raises because of that field.
C5_SizeCoercion ==
    ListDone =>
        /\ list_result.kind = "return"
        /\ Len(list_result.value) = TotalAtts(list_msgs)
        /\ \A i \in 1..Len(list_msgs) :
              \A j \in 1..Len(AttachmentsOf(list_msgs[i])) :
                  SizeMissingOrNonNumeric(AttachmentsOf(list_msgs[i])[j].size)
                  => list_result.value[AttsBefore(i) + j].size_bytes = 0

\* what the code does: a missing, null or empty size becomes 0, a string that is
\* not an integer literal ends the whole call with ValueError
C5_SizeCoercionAsCoded ==
    ListDone =>
        LET bad == \E i \in 1..Len(list_msgs) :
                      \E j \in 1..Len(AttachmentsOf(list_msgs[i])) :
                          LET x == AttachmentsOf(list_msgs[i])[j].size
                          IN  x.t = "str" /\ x.v # <<>> /\ ~ParseIntLiteral(x.v).ok
        IN  IF bad THEN list_result = Raise("ValueError")
            ELSE /\ list_result.kind = "return"
                 /\ \A i \in 1..Len(list_msgs) :
                       \A j \in 1..Len(AttachmentsOf(list_msgs[i])) :
                           ~Truthy(AttachmentsOf(list_msgs[i])[j].size)
                           => list_result.value[AttsBefore(i) + j].size_bytes = 0

\* the listing of the round-trip scenario: message m1 with attachments a1 and a2
ScenarioListing == << Msg(Str(S_m1), Str(S_subject), Str(S_ms), List(<<Att_a1, Att_a2>>)) >>

ScenarioRun == ListDone /\ list_msgs = ScenarioListing

Iso_2024_09_04_18_11_34 == <<"2","0","2","4","-","0","9","-","0","4","T","1","8",":","1","1",":","3","4","Z">>
Iso_2024_09_04_19_31_34 == <<"2","0","2","4","-","0","9","-","0","4","T","1","9",":","3","1",":","3","4","Z">>

ScenarioFirstRef(received_at) ==
    /\ list_result.kind = "return"
    /\ Len(list_result.value) = 2
    /\ list_result.value[1].message_id = S_m1
    /\ list_result.value[1].attachment_id = S_a1
    /\ list_result.value[1].size_bytes = 1234
    /\ list_result.value[1].received_at = received_at

\* C7 as stated: the scenario yields two references, the first with message_id "m1",
\* attachment_id "a1", size_bytes 1234 and received_at "2024-09-04T18:11:34Z".
C7_RoundTripAsStated == ScenarioRun => ScenarioFirstRef(Iso_2024_09_04_18_11_34)

\* C7 amended: the same scenario, with received_at "2024-09-04T19:31:34Z", the UTC
\* time of epoch millisecond 1725478294000 in ISO-8601 form with a Z suffix.
C7_RoundTrip == ScenarioRun => ScenarioFirstRef(Iso_2024_09_04_19_31_34)

\* the scenario has been run and produced its two references
C7_Witness == ScenarioRun /\ list_result.kind = "return" /\ Len(list_result.value) = 2

\* the timestamp is missing or null, is no integer literal, or denotes an
\* instant before year 1 or after year 9999
Unparseable(date) ==
    date \in { Absent, Str(<<>>), Str(S_abc), Str(S_year10000), Str(S_year0) }

\* the references of the messages with an unparseable timestamp have an empty
\* received_at and are otherwise what the message and the attachment give
FallbackRefs(refs) ==
    /\ Len(refs) = TotalAtts(list_msgs)
    /\ \A i \in 1..Len(list_msgs) :
          Unparseable(list_msgs[i].internalDate) =>
              \A j \in 1..Len(AttachmentsOf(list_msgs[i])) :
                  LET a == AttachmentsOf(list_msgs[i])[j]
                  IN  refs[AttsBefore(i) + j] =
                        [ message_id    |-> StrOrEmpty(list_msgs[i].messageId),
                          attachment_id |-> StrOrEmpty(a.attachmentId),
                          filename      |-> StrOrEmpty(a.filename),
                          mime_type     |-> StrOrEmpty(a.mimeType),
                          size_bytes    |-> a.size.v,
                          thread_id     |-> <<>>,
                          subject       |-> StrOrEmpty(list_msgs[i].subject),
                          from_address  |-> <<>>,
                          received_at   |-> <<>> ]

HasUnparseableDate == \E i \in 1..Len(list_msgs) : Unparseable(list_msgs[i].internalDate)

\* C15: when a message's timestamp cannot be parsed as epoch milliseconds, the
\* listing call does not raise, every reference of that message has
\* received_at = "", and the other fields of those references are as usual.
C15_TimestampFallback ==
    (ListDone /\ HasUnparseableDate) =>
        /\ list_result.kind = "return"
        /\ FallbackRefs(list_result.value)

\* what the code does keep of C15: whenever the call returns, those references
\* have the empty received_at and their other fields
C15_TimestampFallbackWhenReturned ==
    (ListDone /\ HasUnparseableDate /\ list_result.kind = "return")
    => FallbackRefs(list_result.value)

\* the call raises exactly when some attachment has a size int() rejects
C15_RaisesOnlyForSize ==
    (ListDone /\ list_result.kind = "raise") =>
        /\ list_result = Raise("ValueError")
        /\ \E i \in 1..Len(list_msgs) :
              \E j \in 1..Len(AttachmentsOf(list_msgs[i])) :
                  AttachmentsOf(list_msgs[i])[j].size = Str(S_abc)

(***************************************************************************)
(* Claims about _append_lookback_to_query                                  *)
(***************************************************************************)
\* the tokens of q that start with the prefix, compared case-insensitively
PrefixTokens(q, prefix) ==
    { i \in DOMAIN Split(q) : StartsWith(LowerStr(Split(q)[i]), prefix) }

AugInput == StrOrEmpty(aug_query)

\* the number of tokens with the prefix a result must have: those of the input
\* when there are any, otherwise the one appended when wanted
ExpectedTokens(prefix, wanted) ==
    IF PrefixTokens(AugInput, prefix) # {}
    THEN Cardinality(PrefixTokens(AugInput, prefix))
    ELSE IF wanted THEN 1 ELSE 0

PositiveLookback == aug_days.t = "int" /\ aug_days.v > 0

\* C12: applying the augmentation to its own result changes nothing; one
\* application yields a query with a token starting with has:attachment and,
\* for a positive lookback, one starting with newer_than: (prefixes compared
\* case-insensitively), and no token is appended when the query already has a
\* token with that prefix.
C12_AugmentIdempotent ==
    /\ Len(aug_out) >= 1 =>
          /\ Cardinality(PrefixTokens(aug_out[1], L_has_attachment))
                = ExpectedTokens(L_has_attachment, TRUE)
          /\ Cardinality(PrefixTokens(aug_out[1], L_newer_than))
                = ExpectedTokens(L_newer_than, PositiveLookback)
          /\ PrefixTokens(aug_out[1], L_has_attachment) # {}
          /\ PositiveLookback => PrefixTokens(aug_out[1], L_newer_than) # {}
    /\ Len(aug_out) = 2 => aug_out[2] = aug_out[1]

\* a query whose attachment filter is written in capitals and has no recency
\* filter: only the recency token is appended, and the second application
\* returns its argument
C12_Witness ==
    /\ aug_query = Str(<<"H","A","S",":","A","t","t","a","c","h","m","e","n","t">> \o TAB)
    /\ aug_days = PyInt(7)
    /\ aug_out = << <<"H","A","S",":","A","t","t","a","c","h","m","e","n","t">>
                      \o SP \o L_newer_than \o <<"7","d">>,
                    <<"H","A","S",":","A","t","t","a","c","h","m","e","n","t">>
                      \o SP \o L_newer_than \o <<"7","d">> >>

(***************************************************************************)
(* Claims about upload_pdf_to_planner                                      *)
(***************************************************************************)
UpDone == up_pc = "done"

\* the payload is non-empty bytes that do not start with the PDF magic header
NonPdfPayload == IsNonEmptyBytes(up_args.pdf_bytes) /\ ~StartsWithPdf(up_args.pdf_bytes.v)

\* C6: for a non-empty payload whose first four bytes are not "%PDF" the call fails
\* with ValueError and no HTTP request is sent.
C6_NonPdfRejected ==
    NonPdfPayload => /\ up_posts = <<>>
                     /\ UpDone => up_result = Raise("ValueError")

\* what the code does with such a payload: the request goes out like any other
C6_NonPdfUploaded ==
    (NonPdfPayload /\ UpDone)
    => \/ up_result = Raise("RuntimeError") /\ up_posts = <<>> /\ ~Truthy(up_env.base)
       \/ Len(up_posts) = 1 /\ up_posts[1].file = up_args.pdf_bytes.v

\* a response with a 2xx status has been received and the call is over
UpDoneOk == UpDone /\ up_resp # Absent /\ ~IsErrorStatus(up_resp.status)

EmptyReport ==
    [ created_order_ids |-> List(<<>>), warnings |-> List(<<>>), errors |-> List(<<>>),
      source_message_id |-> FirstTruthy(up_args.source_message_id, Absent, Str(<<>>)),
      notes |-> Str(<<>>) ]

\* C8: after a 2xx response the call returns an InsertReport whatever the body is
\* (absent, not JSON, or JSON of any shape); a body that is no JSON object counts
\* as the empty object, so that the report holds the defaults.
C8_ReportOnSuccess ==
    UpDoneOk => /\ up_result.kind = "return"
                /\ up_resp.body.t # "dict" => up_result.value = EmptyReport

\* what the code does: a JSON body that is not an object ends in AttributeError
C8_ReportOnSuccessAsCoded ==
    UpDoneOk => IF up_resp.body.t \in {"dict", "nojson"}
                THEN up_result.kind = "return"
                ELSE up_result = Raise("AttributeError")

\* the sequence the claim assigns to an upstream warnings or errors value
ClaimedSequence(x, got) ==
    /\ got.t = "list"
    /\ x.t = "none" => got = List(<<>>)
    /\ x.t = "str"  => got = List(<<x>>)
    /\ x.t = "list" => got = x

\* C9: in every InsertReport returned, warnings and errors are sequences (absent:
\* empty, a string s: [s], a sequence: unchanged), each mapped on its own, and
\* created_order_ids comes from created_order_ids, else created, else is empty.
C9_SequenceFields ==
    (UpDone /\ up_result.kind = "return")
    => LET data == ResponseData(up_resp)
           ids  == Get(data, "created_order_ids")
           cr   == Get(data, "created")
       IN  /\ ClaimedSequence(Get(data, "warnings"), up_result.value.warnings)
           /\ ClaimedSequence(Get(data, "errors"), up_result.value.errors)
           /\ up_result.value.created_order_ids =
                 (IF ids # Absent THEN ids ELSE IF cr # Absent THEN cr ELSE List(<<>>))

\* what the code does: absent, null and "" give the empty sequence, a non-empty
\* string s gives [s], and every other value is passed through as it is
CodedSequence(x, got) ==
    IF ~Truthy(x) THEN got = List(<<>>)
    ELSE IF x.t = "str" THEN got = List(<<x>>) ELSE got = x

C9_SequenceFieldsAsCoded ==
    (UpDone /\ up_result.kind = "return")
    => LET data == ResponseData(up_resp)
       IN  /\ CodedSequence(Get(data, "warnings"), up_result.value.warnings)
           /\ CodedSequence(Get(data, "errors"), up_result.value.errors)

\* a response with a status outside 2xx has been received and the call is over
UpDoneRefused == UpDone /\ up_resp # Absent /\ IsErrorStatus(up_resp.status)

RefusedBody == IF up_resp.text.t = "str" THEN up_resp.text.v ELSE <<>>

\* the first characters of the refused response's body: all of them up to 200
BodyPrefix ==
    IF Len(RefusedBody) <= 200 THEN RefusedBody ELSE SubSeq(RefusedBody, 1, 200)

EndsWith(s, tail) ==
    Len(s) >= Len(tail) /\ SubSeq(s, Len(s) - Len(tail) + 1, Len(s)) = tail

\* C13: a response with a status below 200 or of 300 and more ends the call with
\* a RuntimeError whose message holds "HTTP <status>" followed by the first 200
\* characters of the body, or by the whole body when it is shorter, and by
\* nothing else; no InsertReport is returned.
C13_RefusedUpload ==
    UpDoneRefused =>
        /\ up_result.kind = "raise"
        /\ up_result.exc = "RuntimeError"
        /\ EndsWith(up_result.msg,
                    <<"H","T","T","P"," ">> \o DecimalStr(up_resp.status)
                        \o <<":", " ">> \o BodyPrefix)

\* a 400 whose body has 260 characters: the message ends with the first 200
C13_Witness ==
    /\ UpDoneRefused
    /\ up_resp.status = 400
    /\ Len(RefusedBody) = 260
    /\ up_result.msg = S_planner_upload_failed \o <<"H","T","T","P"," ","4","0","0",":"," ">>
                          \o TextOfLen(200)

\* the refusal of the test suite: HTTP 400 with the body "Bad request: invalid PDF"
C13_WitnessShortBody ==
    /\ UpDoneRefused
    /\ up_resp.status = 400
    /\ up_result.msg = S_planner_upload_failed \o <<"H","T","T","P"," ","4","0","0",":"," ">>
                          \o S_bad_request

\* the one request of the call failed in transit: there is no response
UpDoneInTransit == UpDone /\ Len(up_posts) = 1 /\ up_resp = Absent

\* C14: when the request times out the call ends with TimeoutError, when it fails
\* in any other way with RuntimeError wrapping the failure; the two are different
\* exceptions, and neither case returns an InsertReport.
C14_TransportFailure ==
    UpDoneInTransit =>
        /\ up_result.kind = "raise"
        /\ up_result.cause \in PostFailures
        /\ up_result.cause \in {"ConnectTimeout", "ReadTimeout"}
              => up_result.exc = "TimeoutError"
        /\ up_result.cause \notin {"ConnectTimeout", "ReadTimeout"}
              => up_result.exc = "RuntimeError"

\* a read timeout ends in TimeoutError
C14_Witness ==
    /\ UpDoneInTransit
    /\ up_result = RaiseFrom("TimeoutError", "ReadTimeout")

\* a refused connection ends in RuntimeError
C14_WitnessOther ==
    /\ UpDoneInTransit
    /\ up_result = RaiseFrom("RuntimeError", "ConnectionError")

\* the payload is no bytes object, or one of length zero
PayloadEmptyOrNotBytes ==
    IF up_args.pdf_bytes.t \in {"bytes", "bytearray"}
    THEN Len(up_args.pdf_bytes.v) = 0
    ELSE TRUE

\* PLANNER_API_BASE is unset or empty
BaseAbsent == up_env.base \in {Absent, Str(<<>>)}

\* the steps in their order; a call ends after any of them
StepRank(pc) ==
    CASE pc = "validate" -> 1
      [] pc = "config"   -> 2
      [] pc = "post"     -> 3
      [] pc = "respond"  -> 4
      [] pc = "done"     -> 5

\* where a call may stand, and with how many requests sent, given its inputs
StepsInOrder ==
    /\ Len(up_posts) <= 1
    /\ up_pc \in {"validate", "config", "post"} => up_posts = <<>>
    /\ up_pc = "respond" => Len(up_posts) = 1
    /\ PayloadEmptyOrNotBytes =>
          /\ up_pc \in {"validate", "done"}
          /\ up_posts = <<>>
          /\ UpDone => up_result = Raise("ValueError")
    /\ (~PayloadEmptyOrNotBytes /\ BaseAbsent) =>
          /\ up_pc \in {"validate", "config", "done"}
          /\ up_posts = <<>>
          /\ UpDone => up_result = Raise("RuntimeError")

\* one step of a call: forward in the order of the steps, a request is sent by
\* the request step alone and only as the first one, and a call that is over
\* stays as it is
OneStepForward ==
    /\ StepRank(up_pc') > StepRank(up_pc)
    /\ up_pc' # "done" => StepRank(up_pc') = StepRank(up_pc) + 1
    /\ up_posts' # up_posts => up_pc = "post" /\ up_posts = <<>> /\ Len(up_posts') = 1

\* C16: a call validates the payload, then looks up the configuration, then
\* sends the request, and sends at most one; nothing is sent for a payload that
\* is empty or not bytes (ValueError, even with PLANNER_API_BASE missing too)
\* nor without PLANNER_API_BASE (RuntimeError); after a timeout, a transport
\* failure or a non-2xx response the call is over with its single request.
C16_OrderAndNoRetry == [](StepsInOrder) /\ [][OneStepForward]_vars

\* an empty payload and no PLANNER_API_BASE: ValueError, nothing sent
C16_Witness ==
    /\ up_args.pdf_bytes = Bytes(<<>>)
    /\ up_env.base = Absent
    /\ UpDone
    /\ up_result = Raise("ValueError")
    /\ up_posts = <<>>

\* the request timed out and the call is over with that one request
C16_WitnessTimeout ==
    /\ UpDone
    /\ up_result.kind = "raise" /\ up_result.exc = "TimeoutError"
    /\ Len(up_posts) = 1

\* the upload was refused with HTTP 500 and the call is over with that one request
C16_WitnessRefused ==
    /\ UpDoneRefused
    /\ up_resp.status = 500
    /\ Len(up_posts) = 1

(***************************************************************************)
(* Claims about download_attachment                                        *)
(***************************************************************************)
\* the key holds a non-empty string
Supplied(ref, key) == Get(ref, key).t = "str" /\ Get(ref, key).v # <<>>

\* an identifier is absent or empty under its snake-case and its camelCase key
LacksAnId(ref) ==
    \/ ~Supplied(ref, "message_id") /\ ~Supplied(ref, "messageId")
    \/ ~Supplied(ref, "attachment_id") /\ ~Supplied(ref, "attachmentId")

InvokedBy(c) == \E k \in DOMAIN dl_invoked : dl_invoked[k].call = c

\* C10: a reference lacking the message or the attachment identifier under both
\* key namings ends in ValueError without the download primitive being invoked;
\* a reference supplying both, under either naming, passes validation.
C10_ValidationBeforeDownload ==
    \A c \in Calls :
        dl_ref[c].t = "dict" =>
            IF LacksAnId(dl_ref[c])
            THEN /\ ~InvokedBy(c)
                 /\ dl_pc[c] \in {"validate", "done"}
                 /\ dl_pc[c] = "done" => dl_result[c] = Raise("ValueError")
            ELSE /\ dl_result[c] # Raise("ValueError")
                 /\ dl_pc[c] \in {"read", "cleanup", "done"} => InvokedBy(c)

\* the message identifier is there (camelCase only), the attachment identifier is
\* not: the call is over with ValueError and the collaborator was never called
C10_Witness ==
    /\ dl_ref[1].t = "dict"
    /\ Supplied(dl_ref[1], "messageId") /\ ~Supplied(dl_ref[1], "message_id")
    /\ LacksAnId(dl_ref[1])
    /\ dl_pc[1] = "done"
    /\ dl_result[1] = Raise("ValueError")
    /\ dl_invoked = <<>>

\* both identifiers under the camelCase keys only: the collaborator is called with them
C10_WitnessCamelCase ==
    /\ dl_ref[1].t = "dict"
    /\ ~Supplied(dl_ref[1], "message_id") /\ ~Supplied(dl_ref[1], "attachment_id")
    /\ dl_pc[1] = "read"
    /\ Len(dl_invoked) = 1
    /\ dl_invoked[1].message_id = S_m2 /\ dl_invoked[1].attachment_id = S_a2

\* the deletions call c has attempted
RemovalsBy(c) == { k \in DOMAIN dl_removed : dl_removed[k].call = c }

\* the bytes the collaborator stored for the reference of call c
OwnBytes(c) == StoredBytes(Invocation(c).message_id, Invocation(c).attachment_id)

\* C11: once the collaborator has returned a path, the call attempts to delete
\* that file exactly once, after the read step and as its last step, whether the
\* read succeeded or failed; whether or not the deletion succeeds, the call ends
\* with the outcome of the read: the file's full contents, or a RuntimeError that
\* names the path and wraps the cause.
C11_ScopedCleanup ==
    \A c \in Calls :
        /\ dl_pc[c] # "done" \/ dl_path[c] = Absent => RemovalsBy(c) = {}
        /\ dl_pc[c] = "done" /\ dl_path[c] # Absent =>
              /\ Cardinality(RemovalsBy(c)) = 1
              /\ \A k \in RemovalsBy(c) : dl_removed[k].path = dl_path[c].v
              /\ dl_read[c] # Pending
              /\ dl_result[c] = dl_read[c]
              /\ \/ dl_result[c] = Return(OwnBytes(c))
                 \/ \E cause \in ReadCauses : dl_result[c] = ReadError(dl_path[c].v, cause)

\* the read succeeded, the deletion failed, and the bytes are returned all the same
C11_Witness ==
    /\ dl_pc[1] = "done"
    /\ dl_path[1] = Str(SavedPath(S_inv_pdf))
    /\ dl_removed = <<Removal(1, SavedPath(S_inv_pdf), FALSE)>>
    /\ dl_result[1] = Return(StoredBytes(S_m1, S_a1))

\* the read failed and so did the deletion: the error is the one of the read
C11_WitnessReadFailed ==
    /\ dl_pc[1] = "done"
    /\ dl_path[1] = Str(SavedPath(S_inv_pdf))
    /\ dl_removed = <<Removal(1, SavedPath(S_inv_pdf), FALSE)>>
    /\ dl_result[1] = ReadError(SavedPath(S_inv_pdf), "PermissionError")

\* call c has its path and has not read the file yet
AboutToRead(c) == dl_pc[c] = "read"

\* C17: concurrent calls do not interfere: a call that returns, returns the bytes
\* the collaborator stored for its own reference, and while a call has not yet
\* read its transient file, no other call's cleanup has removed that file nor
\* has its content been replaced.
C17_NoInterference ==
    \A c \in Calls :
        /\ (dl_pc[c] = "done" /\ dl_result[c].kind = "return")
              => dl_result[c].value = OwnBytes(c)
        /\ AboutToRead(c) =>
              /\ dl_path[c].v \in DOMAIN dl_fs
              /\ dl_fs[dl_path[c].v] = OwnBytes(c)

\* two calls were handed the same path
SharedPath ==
    \E c, d \in Calls : c # d /\ dl_path[c] # Absent /\ dl_path[c] = dl_path[d]

\* what the code does keep of C17: calls that were handed different paths do
\* not interfere
C17_NoInterferenceOnDistinctPaths == SharedPath \/ C17_NoInterference

\* a call has returned the bytes of another call's attachment
C17_ReturnedForeignBytes ==
    \E c \in Calls :
        /\ dl_pc[c] = "done" /\ dl_result[c].kind = "return"
        /\ dl_result[c].value # OwnBytes(c)

\* a call is about to read a file that another call's cleanup has removed
C17_RemovedBeforeRead ==
    \E c \in Calls :
        /\ AboutToRead(c)
        /\ dl_path[c].v \notin DOMAIN dl_fs
        /\ \E k \in DOMAIN dl_removed :
              dl_removed[k].call # c /\ dl_removed[k].path = dl_path[c].v /\ dl_removed[k].ok

====
